---- MODULE Spec2Model ----
(***************************************************************************)
(* A model of the emissions downscaler (downscaler.allocate.allocate and   *)
(* downscaler.utils): the coordinate alignment of two projections, the     *)
(* downscaling pipeline of one variable, the command line run, and the     *)
(* perimeter fill applied twice.                                           *)
(***************************************************************************)
EXTENDS Integers, Sequences, FiniteSets, TLC

VARIABLES
    al_pc,      \* position of the alignment run: init, forward, back, failed
    al_da,      \* the grid object handed to align_coordinates
    al_in,      \* the value of that grid when the run began
    al_start,   \* projection the grid is expressed in
    al_final,   \* projection the grid is aligned to
    al_out,     \* outcome of align_coordinates(al_da, al_start, al_final)
    al_back,    \* outcome of aligning al_out back from al_final to al_start
    ds_pc,      \* position in downscale_coarse_emissions
    da_fine,    \* reference emissions on the fine grid
    da_coarse,  \* target emissions on the coarse grid, as passed in
    proj_fine,  \* projection of da_fine
    proj_coarse,        \* projection of da_coarse
    grid_factor,        \* fine cells per coarse cell and axis
    agg,                \* aggregation: "sum" or "mean"
    da_coarse_aligned,  \* the local da_coarse after align_coordinates
    da_fine_coarsened,  \* the reference coarsened by grid_factor
    ref_contrib,        \* fractional contribution of each fine cell
    da_coarse_nn,       \* the target resampled onto the fine grid
    da_dscale,          \* the downscaled emissions
    pc,                 \* position in main
    args,               \* the command line: gridfactor, datavars
    files,              \* the datasets held by the fine and the coarse input file
    grid_fine,          \* the fine dataset once read
    grid_coarse,        \* the coarse dataset once read
    data_vars,          \* the working list of variable names
    done_vars,          \* how many entries of data_vars have been processed
    downscaled_output,  \* variable name -> downscaled grid
    error,              \* the exception that ended the run, or "none"
    file_out,           \* the output file: "absent", or the names written
    \* _fill_perimeter applied to one grid, and again to what it returned
    fl_pc,              \* position of the fill run
    fl_in,              \* the grid as it was before the first call
    fl_da,              \* the grid object, which every call changes in place
    fl_once             \* the grid as the first call returned it

alignVars == <<al_pc, al_da, al_in, al_start, al_final, al_out, al_back>>

pipeVars == <<ds_pc, da_fine, da_coarse, proj_fine, proj_coarse, grid_factor, agg,
              da_coarse_aligned, da_fine_coarsened, ref_contrib, da_coarse_nn, da_dscale>>

mainVars == <<pc, args, files, grid_fine, grid_coarse, data_vars, done_vars,
              downscaled_output, error, file_out>>

fillVars == <<fl_pc, fl_in, fl_da, fl_once>>

vars == <<alignVars, pipeVars, mainVars, fillVars>>

\* what a step of the pipeline, of the alignment run, of main and of the
\* fill run leaves alone
outsidePipe == <<alignVars, mainVars, fillVars>>
outsideAlign == <<pipeVars, mainVars, fillVars>>
outsideMain == <<alignVars, pipeVars, fillVars>>
outsideFill == <<alignVars, pipeVars, mainVars>>

-----------------------------------------------------------------------------
(* Numbers.  Coordinates, false origins and cell values are modelled as     *)
(* exact numbers (integers, and ratios of integers for the quotients); the  *)
(* rounding of float64 arithmetic is outside the model.                     *)

Abs(n) == IF n < 0 THEN -n ELSE n

\* greatest common divisor of two naturals
RECURSIVE GCD(_, _)
GCD(a, b) == IF b = 0 THEN a ELSE GCD(b, a % b)

(* A cell value: a number n/d in lowest terms with d > 0, the undefined      *)
(* marker NaN, or an infinity with the sign of n.                            *)
Num(n, d) ==
    LET g == GCD(Abs(n), Abs(d))
        s == IF d < 0 THEN -1 ELSE 1
    IN  [t |-> "num", n |-> (s * n) \div g, d |-> (s * d) \div g]

NaN == [t |-> "nan", n |-> 0, d |-> 1]

Inf(sign) == [t |-> "inf", n |-> sign, d |-> 1]

Zero == Num(0, 1)

Sign(v) == IF v.n > 0 THEN 1 ELSE IF v.n < 0 THEN -1 ELSE 0

IsNum(v) == v.t = "num"

\* numpy addition
add(a, b) ==
    IF a.t = "nan" \/ b.t = "nan" THEN NaN
    ELSE IF a.t = "inf" /\ b.t = "inf" THEN (IF a.n = b.n THEN a ELSE NaN)
    ELSE IF a.t = "inf" THEN a
    ELSE IF b.t = "inf" THEN b
    ELSE Num(a.n * b.d + b.n * a.d, a.d * b.d)

\* numpy multiplication
multiply(a, b) ==
    IF a.t = "nan" \/ b.t = "nan" THEN NaN
    ELSE IF a.t = "inf" \/ b.t = "inf"
         THEN (IF Sign(a) * Sign(b) = 0 THEN NaN ELSE Inf(Sign(a) * Sign(b)))
    ELSE Num(a.n * b.n, a.d * b.d)

\* numpy true division: x/0 is an infinity for x # 0 and NaN for x = 0
true_divide(a, b) ==
    IF a.t = "nan" \/ b.t = "nan" THEN NaN
    ELSE IF a.t = "inf" /\ b.t = "inf" THEN NaN
    ELSE IF a.t = "inf" THEN Inf(IF Sign(b) = 0 THEN Sign(a) ELSE Sign(a) * Sign(b))
    ELSE IF b.t = "inf" THEN Zero
    ELSE IF b.n = 0 THEN (IF a.n = 0 THEN NaN ELSE Inf(Sign(a)))
    ELSE Num(a.n * b.d, a.d * b.n)

\* fillna(0) on one value
fillna(v) == IF v.t = "nan" THEN Zero ELSE v

RECURSIVE SumSeq(_)
SumSeq(s) == IF Len(s) = 0 THEN Zero ELSE add(Head(s), SumSeq(Tail(s)))

RECURSIVE SumInts(_)
SumInts(s) == IF Len(s) = 0 THEN 0 ELSE Head(s) + SumInts(Tail(s))

-----------------------------------------------------------------------------
(* Projections: proj4_params, a mapping from parameter name to value.       *)
(* A Lambert conformal projection built from one standard parallel carries  *)
(* no lat_2.                                                                *)

FalseOrigins == {-2, 0, 3}

Projections ==
    UNION { [{"lat_1", "x_0", "y_0"} -> {33, 45} \cup FalseOrigins],
            [{"lat_1", "lat_2", "x_0", "y_0"} -> {33, 45} \cup FalseOrigins] }

ValidProjection(p) ==
    /\ p["lat_1"] \in {33, 45}
    /\ "lat_2" \in DOMAIN p => p["lat_2"] \in {33, 45}
    /\ p["x_0"] \in FalseOrigins
    /\ p["y_0"] \in {0, 3}

NoGrid == [x |-> <<>>, y |-> <<>>, data |-> <<>>]

NoBadVals == [key \in {} |-> <<0, 0>>]

\* keys of proj_start the loop compares
compared_keys(proj_start) == {key \in DOMAIN proj_start : key \notin {"x_0", "y_0"}}

\* bad_vals as the loop leaves it, when every compared key is in proj_final
bad_vals(proj_start, proj_final) ==
    LET bad == {key \in compared_keys(proj_start) : proj_final[key] # proj_start[key]}
    IN  [key \in bad |-> <<proj_start[key], proj_final[key]>>]

\* the shift with the two projections exchanged
x_final_reversed(da, proj_start, proj_final) ==
    [i \in DOMAIN da.x |-> da.x[i] - proj_final["x_0"] + proj_start["x_0"]]

x_final(da, proj_start, proj_final) ==
    [i \in DOMAIN da.x |-> da.x[i] - proj_start["x_0"] + proj_final["x_0"]]

y_final(da, proj_start, proj_final) ==
    [j \in DOMAIN da.y |-> da.y[j] - proj_start["y_0"] + proj_final["y_0"]]

\* align_coordinates: status, the mismatches found, the new grid, and the
\* argument object as the call leaves it
align_coordinates(da, proj_start, proj_final) ==
    IF \E key \in compared_keys(proj_start) : key \notin DOMAIN proj_final
    THEN [status |-> "KeyError", bad_vals |-> NoBadVals, da_aligned |-> NoGrid, da |-> da]
    ELSE IF DOMAIN bad_vals(proj_start, proj_final) # {}
    THEN [status |-> "ValueError", bad_vals |-> bad_vals(proj_start, proj_final),
          da_aligned |-> NoGrid, da |-> da]
    ELSE [status |-> "ok", bad_vals |-> NoBadVals,
          da_aligned |-> [x    |-> x_final(da, proj_start, proj_final),
                          y    |-> y_final(da, proj_start, proj_final),
                          data |-> da.data],
          da |-> da]

NotCalled == [status |-> "none", bad_vals |-> NoBadVals, da_aligned |-> NoGrid, da |-> NoGrid]

-----------------------------------------------------------------------------
(* Grids of the pipeline: x and y are the coordinate arrays, data maps       *)
(* <<row (y index), column (x index)>> to a cell value.                      *)

NX(da) == Len(da.x)
NY(da) == Len(da.y)
Cells(da) == (1..NY(da)) \X (1..NX(da))

\* the windows of a coarsened axis: window w holds entries (w-1)k+1 .. wk
windows(coord, k) ==
    [w \in 1..(Len(coord) \div k) |-> SubSeq(coord, (w - 1) * k + 1, w * k)]

\* coord_func = "mean" of one window
window_mean(win) == SumInts(win) \div Len(win)

\* a window that misses its last row and column
window_cells_short(da, k, J, I) ==
    [n \in 1..((k - 1) * (k - 1)) |->
        da.data[<<(J - 1) * k + ((n - 1) \div (k - 1)) + 1,
                  (I - 1) * k + ((n - 1) % (k - 1)) + 1>>]]

\* the k x k block of fine cells reduced into coarse cell <<J, I>>
window_cells(da, k, J, I) ==
    [n \in 1..(k * k) |->
        da.data[<<(J - 1) * k + ((n - 1) \div k) + 1,
                  (I - 1) * k + ((n - 1) % k) + 1>>]]

\* np.sum and np.mean over one block
reduce(func, cells) ==
    IF func = "sum" THEN SumSeq(cells)
    ELSE true_divide(SumSeq(cells), Num(Len(cells), 1))

\* da_fine.coarsen(x=grid_factor, y=grid_factor).reduce(agg); boundary="exact" raises when a
\* dimension is not a multiple of the window
coarsen_ok(fine, factor) ==
    /\ factor > 0
    /\ NX(fine) % factor = 0
    /\ NY(fine) % factor = 0

coarsen_finescale_emissions(fine, factor, func) ==
    LET wx == windows(fine.x, factor)
        wy == windows(fine.y, factor)
    IN  [x    |-> [I \in DOMAIN wx |-> window_mean(wx[I])],
         y    |-> [J \in DOMAIN wy |-> window_mean(wy[J])],
         data |-> [c \in (DOMAIN wy) \X (DOMAIN wx) |->
                      reduce(func, window_cells(fine, factor, c[1], c[2]))]]

\* nearest-neighbour lookup on one axis: 0 (undefined) outside the span of
\* the source coordinates, else the index of the nearest one, the lower
\* index on a tie
nearest_index(coord, at) ==
    IF at < coord[1] \/ at > coord[Len(coord)] THEN 0
    ELSE CHOOSE i \in DOMAIN coord :
            \A i2 \in DOMAIN coord :
                \/ Abs(coord[i] - at) < Abs(coord[i2] - at)
                \/ (Abs(coord[i] - at) = Abs(coord[i2] - at) /\ i <= i2)

\* da.interp_like(other, method="nearest")
interp_like(da, other) ==
    LET ix == [i \in DOMAIN other.x |-> nearest_index(da.x, other.x[i])]
        iy == [j \in DOMAIN other.y |-> nearest_index(da.y, other.y[j])]
    IN  [x    |-> other.x,
         y    |-> other.y,
         data |-> [c \in Cells(other) |->
                      IF iy[c[1]] = 0 \/ ix[c[2]] = 0 THEN NaN
                      ELSE da.data[<<iy[c[1]], ix[c[2]]>>]]]

\* da.loc[dict(x=x[to])] = da.loc[dict(x=x[from])]
assign_x(da, to, from) ==
    [da EXCEPT !.data = [c \in Cells(da) |->
        IF c[2] = to THEN da.data[<<c[1], from>>] ELSE da.data[c]]]

\* da.loc[dict(y=y[to])] = da.loc[dict(y=y[from])]
assign_y(da, to, from) ==
    [da EXCEPT !.data = [c \in Cells(da) |->
        IF c[1] = to THEN da.data[<<from, c[2]>>] ELSE da.data[c]]]

\* a perimeter fill that leaves the y edges alone
_fill_perimeter_x_only(da) ==
    LET s1 == assign_x(da, 1, 2)
        s2 == assign_x(s1, NX(da), NX(da) - 1)
    IN  s2

\* _fill_perimeter: x edges first, then y edges
_fill_perimeter(da) ==
    LET s1 == assign_x(da, 1, 2)
        s2 == assign_x(s1, NX(da), NX(da) - 1)
        s3 == assign_y(s2, 1, 2)
        s4 == assign_y(s3, NY(da), NY(da) - 1)
    IN  s4

\* fractional_contribution
fractional_contribution(fine, coarse) ==
    LET da_coarse_regridded == _fill_perimeter(interp_like(coarse, fine))
    IN  [x    |-> fine.x,
         y    |-> fine.y,
         data |-> [c \in Cells(fine) |->
                      fillna(true_divide(fine.data[c], da_coarse_regridded.data[c]))]]

\* the array-wise product of two grids on the same coordinates
times(a, b) ==
    [x |-> a.x, y |-> a.y, data |-> [c \in Cells(a) |-> multiply(a.data[c], b.data[c])]]

-----------------------------------------------------------------------------
(* Inputs of one downscaling: grids on the same domain, the fine axis from   *)
(* get_cmaq_xy, the coarse axis either at the centres of the coarse cells    *)
(* or from get_cmaq_xy as well.                                              *)

MaxCoarse == 3

CellSize == 2

GridFactors == {1, 3, 5}

\* np.arange(0, XCELL * NCOLS, XCELL)
get_cmaq_xy(XCELL, NCOLS) == [i \in 1..NCOLS |-> (i - 1) * XCELL]

\* centres of the coarse cells of a fine axis
cell_centres(fine, k) == [w \in 1..(Len(fine) \div k) |-> fine[(w - 1) * k + (k + 1) \div 2]]

shift(coord, by) == [i \in DOMAIN coord |-> coord[i] + by]

FinePatterns == {"ones", "ramp", "spot", "signed", "mixed"}

\* value of fine cell <<j, i>> (counted from 0) of a pattern
FineValue(p, j, i) ==
    CASE p = "ones"   -> 1
      [] p = "ramp"   -> 1 + ((i + 2 * j) % 4)
      [] p = "spot"   -> IF i = 1 /\ j = 0 THEN 3 ELSE 0
      [] p = "signed" -> IF i = 0 /\ j = 0 THEN 1
                         ELSE IF i = 1 /\ j = 0 THEN -1
                         ELSE IF i = j /\ i >= 5 THEN 2 ELSE 0
      [] p = "mixed"  -> (i * j + j) % 3

CoarsePatterns == {"diag9", "ramp"}

CoarseValue(q, J, I) ==
    CASE q = "diag9" -> IF I = J THEN 9 ELSE 0
      [] q = "ramp"  -> 1 + I + 2 * J

FineGrid(p, ny, nx) ==
    [x    |-> get_cmaq_xy(CellSize, nx),
     y    |-> get_cmaq_xy(CellSize, ny),
     data |-> [c \in (1..ny) \X (1..nx) |-> Num(FineValue(p, c[1] - 1, c[2] - 1), 1)]]

\* the coarse target over the domain of fine, in the frame of proj_c
CoarseGrid(q, mode, fine, k, proj_f, proj_c) ==
    LET cx == IF mode = "centre" THEN cell_centres(fine.x, k)
              ELSE get_cmaq_xy(k * CellSize, NX(fine) \div k)
        cy == IF mode = "centre" THEN cell_centres(fine.y, k)
              ELSE get_cmaq_xy(k * CellSize, NY(fine) \div k)
    IN  [x    |-> shift(cx, proj_c["x_0"] - proj_f["x_0"]),
         y    |-> shift(cy, proj_c["y_0"] - proj_f["y_0"]),
         data |-> [c \in (DOMAIN cy) \X (DOMAIN cx) |->
                      Num(CoarseValue(q, c[1] - 1, c[2] - 1), 1)]]

FineProjection == [lat_1 |-> 33, lat_2 |-> 45, x_0 |-> 0, y_0 |-> 0]

CoarseProjections ==
    { FineProjection,
      [lat_1 |-> 33, lat_2 |-> 45, x_0 |-> 3, y_0 |-> -2],
      [lat_1 |-> 45, lat_2 |-> 45, x_0 |-> 0, y_0 |-> 0] }

Unset == [x |-> <<>>, y |-> <<>>, data |-> <<>>]

-----------------------------------------------------------------------------
(* downscale_coarse_emissions, one action per step.                          *)

InitPipe ==
    /\ ds_pc = "start"
    /\ grid_factor \in GridFactors
    /\ agg \in {"sum", "mean"}
    /\ proj_fine = FineProjection
    /\ proj_coarse \in CoarseProjections
    /\ \E p \in FinePatterns, ncy \in 2..MaxCoarse, ncx \in 2..MaxCoarse, extra \in {0, 1} :
          da_fine = FineGrid(p, ncy * grid_factor + extra, ncx * grid_factor)
    /\ \E q \in CoarsePatterns, mode \in {"centre", "file"} :
          da_coarse = CoarseGrid(q, mode, da_fine, grid_factor, proj_fine, proj_coarse)
    /\ da_coarse_aligned = Unset
    /\ da_fine_coarsened = Unset
    /\ ref_contrib = Unset
    /\ da_coarse_nn = Unset
    /\ da_dscale = Unset

\* Step 1: align the target with the reference's false origin
Align ==
    /\ ds_pc = "start"
    /\ LET r == align_coordinates(da_coarse, proj_coarse, proj_fine)
       IN  /\ da_coarse_aligned' = r.da_aligned
           /\ da_coarse' = r.da
           /\ ds_pc' = IF r.status = "ok" THEN "aligned" ELSE "error"
    /\ UNCHANGED <<da_fine, proj_fine, proj_coarse, grid_factor, agg,
                   da_fine_coarsened, ref_contrib, da_coarse_nn, da_dscale>>
    /\ UNCHANGED outsidePipe

\* Step 1: coarsen the reference
Aggregate ==
    /\ ds_pc = "aligned"
    /\ IF coarsen_ok(da_fine, grid_factor)
       THEN /\ da_fine_coarsened' = coarsen_finescale_emissions(da_fine, grid_factor, agg)
            /\ ds_pc' = "coarsened"
       ELSE /\ da_fine_coarsened' = da_fine_coarsened
            /\ ds_pc' = "error"
    /\ UNCHANGED <<da_fine, da_coarse, proj_fine, proj_coarse, grid_factor, agg,
                   da_coarse_aligned, ref_contrib, da_coarse_nn, da_dscale>>
    /\ UNCHANGED outsidePipe

\* Step 2: fractional contribution of the reference cells
Allocate ==
    /\ ds_pc = "coarsened"
    /\ ref_contrib' = fractional_contribution(da_fine, da_fine_coarsened)
    /\ ds_pc' = "allocated"
    /\ UNCHANGED <<da_fine, da_coarse, proj_fine, proj_coarse, grid_factor, agg,
                   da_coarse_aligned, da_fine_coarsened, da_coarse_nn, da_dscale>>
    /\ UNCHANGED outsidePipe

\* Step 3: resample the target onto the fine grid
Resample ==
    /\ ds_pc = "allocated"
    /\ da_coarse_nn' = _fill_perimeter(interp_like(da_coarse_aligned, da_fine))
    /\ ds_pc' = "resampled"
    /\ UNCHANGED <<da_fine, da_coarse, proj_fine, proj_coarse, grid_factor, agg,
                   da_coarse_aligned, da_fine_coarsened, ref_contrib, da_dscale>>
    /\ UNCHANGED outsidePipe

\* Step 3: multiply fraction and resampled target
Combine ==
    /\ ds_pc = "resampled"
    /\ da_dscale' = times(ref_contrib, da_coarse_nn)
    /\ ds_pc' = "done"
    /\ UNCHANGED <<da_fine, da_coarse, proj_fine, proj_coarse, grid_factor, agg,
                   da_coarse_aligned, da_fine_coarsened, ref_contrib, da_coarse_nn>>
    /\ UNCHANGED outsidePipe

-----------------------------------------------------------------------------
(* The command line run, main().  A dataset maps each data variable to its   *)
(* dimensions.                                                               *)

GridFactorArgs == {-3, -1, 0, 1, 2, 3, 4, 5}

Spatial == {"time", "y", "x"}

CoarseDatasets ==
    { [NO |-> Spatial, CO |-> Spatial, TFLAG |-> {"time", "var"}],
      [NO |-> Spatial, SO2 |-> Spatial] }

FineDatasets ==
    { [NO |-> Spatial, CO |-> Spatial, TFLAG |-> {"time", "var"}],
      [NO |-> Spatial, CO |-> {"time"}],
      [SO2 |-> {"time", "y"}, NH3 |-> Spatial] }

\* --data-vars: absent (None), given without names, or given with names
NoneList == <<"None">>

DataVarArgs == {NoneList, <<>>, <<"NO">>, <<"NO", "CO">>, <<"XX", "NO">>}

NoDataset == [unread |-> {}]

\* list(grid.data_vars), in the dataset's order
data_vars_of(grid) ==
    LET names == DOMAIN grid
        order == <<"CO", "NH3", "NO", "SO2", "TFLAG">>
    IN  SelectSeq(order, LAMBDA v : v \in names)

\* the working list when --data-vars is absent
common_spatial_vars(coarse, fine) ==
    LET in_both == SelectSeq(data_vars_of(coarse), LAMBDA v : v \in DOMAIN fine)
    IN  SelectSeq(in_both, LAMBDA v : "x" \in coarse[v] /\ "y" \in coarse[v])

\* parameters of downscale_coarse_emissions, and the keywords map_downscale
\* calls it with
downscale_parameters ==
    {"da_fine", "da_coarse", "proj_fine", "proj_coarse", "grid_factor", "agg"}

map_downscale_keywords ==
    {"da_ref", "da_target", "proj_ref", "proj_target", "grid_factor"}

\* map_downscale(var, ...): the outcome of processing one variable
map_downscale(var, da_ref, da_target, factor) ==
    IF var \notin DOMAIN da_ref \/ var \notin DOMAIN da_target
    THEN [status |-> "KeyError", out |-> <<>>]
    ELSE IF ~(map_downscale_keywords \subseteq downscale_parameters)
    THEN [status |-> "TypeError", out |-> <<>>]
    ELSE [status |-> "ok", out |-> <<"downscaled", var, factor>>]

InitMain ==
    /\ pc = "start"
    /\ args \in [gridfactor : GridFactorArgs, datavars : DataVarArgs]
    /\ files \in [fine : FineDatasets, coarse : CoarseDatasets]
    /\ grid_fine = NoDataset
    /\ grid_coarse = NoDataset
    /\ data_vars = <<>>
    /\ done_vars = 0
    /\ downscaled_output = <<>>
    /\ error = "none"
    /\ file_out = <<"absent">>

\* parse_args: an even grid factor is refused
ParseArgs ==
    /\ pc = "start"
    /\ IF args.gridfactor % 2 = 0
       THEN pc' = "failed" /\ error' = "ValueError"
       ELSE pc' = "parsed" /\ error' = error
    /\ UNCHANGED <<args, files, grid_fine, grid_coarse, data_vars, done_vars,
                   downscaled_output, file_out>>
    /\ UNCHANGED outsideMain

\* Reading Fine-scale file
ReadFine ==
    /\ pc = "parsed"
    /\ grid_fine' = files.fine
    /\ pc' = "fine_read"
    /\ UNCHANGED <<args, files, grid_coarse, data_vars, done_vars,
                   downscaled_output, error, file_out>>
    /\ UNCHANGED outsideMain

\* Reading Coarse-scale file
ReadCoarse ==
    /\ pc = "fine_read"
    /\ grid_coarse' = files.coarse
    /\ pc' = "coarse_read"
    /\ UNCHANGED <<args, files, grid_fine, data_vars, done_vars,
                   downscaled_output, error, file_out>>
    /\ UNCHANGED outsideMain

\* Identify variables for downscaling
SelectVars ==
    /\ pc = "coarse_read"
    /\ data_vars' = IF args.datavars = NoneList
                    THEN common_spatial_vars(grid_coarse, grid_fine)
                    ELSE args.datavars
    /\ pc' = "downscaling"
    /\ UNCHANGED <<args, files, grid_fine, grid_coarse, done_vars,
                   downscaled_output, error, file_out>>
    /\ UNCHANGED outsideMain

\* a comprehension that drops a failing variable and goes on to the next
comprehension_step_skipping(out, done, var, r) ==
    IF r.status = "ok"
    THEN [pc |-> "downscaling", error |-> "none", done |-> done + 1,
          out |-> [v \in DOMAIN out \cup {var} |-> IF v = var THEN r.out ELSE out[v]]]
    ELSE [pc |-> "downscaling", error |-> "none", done |-> done + 1, out |-> out]

\* one iteration of the dict comprehension of downscale_vars: the result of
\* var is stored under its name, or its exception leaves downscale_vars and
\* main, and the mapping built so far is lost
comprehension_step(out, done, var, r) ==
    IF r.status = "ok"
    THEN [pc |-> "downscaling", error |-> "none", done |-> done + 1,
          out |-> [v \in DOMAIN out \cup {var} |-> IF v = var THEN r.out ELSE out[v]]]
    ELSE [pc |-> "failed", error |-> r.status, done |-> done, out |-> <<>>]

\* downscale_vars: the next variable of the dict comprehension
MapDownscale ==
    /\ pc = "downscaling"
    /\ done_vars < Len(data_vars)
    /\ LET var == data_vars[done_vars + 1]
           r   == map_downscale(var, grid_fine, grid_coarse, args.gridfactor)
           s   == comprehension_step(downscaled_output, done_vars, var, r)
       IN  /\ downscaled_output' = s.out
           /\ done_vars' = s.done
           /\ pc' = s.pc
           /\ error' = s.error
    /\ UNCHANGED <<args, files, grid_fine, grid_coarse, data_vars, file_out>>
    /\ UNCHANGED outsideMain

\* Collect downscaled variables and save to netcdf
WriteOutput ==
    /\ pc = "downscaling"
    /\ done_vars = Len(data_vars)
    /\ file_out' = <<"written", DOMAIN downscaled_output>>
    /\ pc' = "done"
    /\ UNCHANGED <<args, files, grid_fine, grid_coarse, data_vars, done_vars,
                   downscaled_output, error>>
    /\ UNCHANGED outsideMain

MainIdle ==
    /\ pc = "idle"
    /\ args = [gridfactor |-> 3, datavars |-> NoneList]
    /\ files = [fine |-> NoDataset, coarse |-> NoDataset]
    /\ grid_fine = NoDataset
    /\ grid_coarse = NoDataset
    /\ data_vars = <<>>
    /\ done_vars = 0
    /\ downscaled_output = <<>>
    /\ error = "none"
    /\ file_out = <<"absent">>

-----------------------------------------------------------------------------
(* The alignment run: one grid aligned from al_start to al_final and, when   *)
(* that succeeded, back again.                                               *)

AlignGrids ==
    { [x |-> <<0, 1, 2>>, y |-> <<0, 1>>, data |-> <<<<1, 2, 3>>, <<4, 5, 6>>>>],
      [x |-> <<1, 4>>, y |-> <<2, 5, 8>>, data |-> <<<<7, 0>>, <<0, 7>>, <<1, 1>>>>] }

AlignIdle ==
    /\ al_pc = "idle"
    /\ al_da = NoGrid
    /\ al_in = NoGrid
    /\ al_start = FineProjection
    /\ al_final = FineProjection
    /\ al_out = NotCalled
    /\ al_back = NotCalled

PipeIdle ==
    /\ ds_pc = "idle"
    /\ da_fine = Unset
    /\ da_coarse = Unset
    /\ proj_fine = FineProjection
    /\ proj_coarse = FineProjection
    /\ grid_factor = 3
    /\ agg = "sum"
    /\ da_coarse_aligned = Unset
    /\ da_fine_coarsened = Unset
    /\ ref_contrib = Unset
    /\ da_coarse_nn = Unset
    /\ da_dscale = Unset

-----------------------------------------------------------------------------
(* The fill run: _fill_perimeter called on a grid, then on the grid it       *)
(* returned.  A grid of the run has a few cells undefined, or all but a few, *)
(* or its whole perimeter; the defined cells hold either pairwise different  *)
(* values or one value.  The function only copies cells, so that grids of    *)
(* pairwise different values stand for every choice of values.               *)

MaxFill == 4

MaxUndefined == 2

\* the subsets of S of at most n elements
RECURSIVE UpTo(_, _)
UpTo(S, n) ==
    IF n = 0 THEN {{}}
    ELSE {{}} \cup {s \cup {c} : s \in UpTo(S, n - 1), c \in S}

perimeter(ny, nx) == {c \in (1..ny) \X (1..nx) : c[1] \in {1, ny} \/ c[2] \in {1, nx}}

UndefinedSets(ny, nx) ==
    LET cells == (1..ny) \X (1..nx)
        few   == UpTo(cells, MaxUndefined)
    IN  few \cup {cells \ s : s \in few} \cup {perimeter(ny, nx)}

FillStyles == {"distinct", "equal"}

FillValue(style, j, i) == IF style = "distinct" THEN j * (MaxFill + 1) + i ELSE 1

FillGrid(ny, nx, undefined, style) ==
    [x    |-> get_cmaq_xy(CellSize, nx),
     y    |-> get_cmaq_xy(CellSize, ny),
     data |-> [c \in (1..ny) \X (1..nx) |->
                  IF c \in undefined THEN NaN ELSE Num(FillValue(style, c[1], c[2]), 1)]]

FillIdle ==
    /\ fl_pc = "idle"
    /\ fl_in = Unset
    /\ fl_da = Unset
    /\ fl_once = Unset

InitFill ==
    /\ fl_pc = "start"
    /\ \E ny \in 2..MaxFill, nx \in 2..MaxFill, style \in FillStyles :
          \E undefined \in UndefinedSets(ny, nx) :
              fl_in = FillGrid(ny, nx, undefined, style)
    /\ fl_da = fl_in
    /\ fl_once = Unset

\* da = _fill_perimeter(da)
FillOnce ==
    /\ fl_pc = "start"
    /\ fl_da' = _fill_perimeter(fl_da)
    /\ fl_once' = fl_da'
    /\ fl_pc' = "once"
    /\ UNCHANGED fl_in
    /\ UNCHANGED outsideFill

\* da = _fill_perimeter(da), on the grid the first call returned
FillAgain ==
    /\ fl_pc = "once"
    /\ fl_da' = _fill_perimeter(fl_da)
    /\ fl_pc' = "twice"
    /\ UNCHANGED <<fl_in, fl_once>>
    /\ UNCHANGED outsideFill

InitAlign ==
    /\ PipeIdle
    /\ MainIdle
    /\ FillIdle
    /\ al_pc = "init"
    /\ al_da \in AlignGrids
    /\ al_in = al_da
    /\ al_start \in {p \in Projections : ValidProjection(p)}
    /\ al_final \in {p \in Projections : ValidProjection(p)}
    /\ al_out = NotCalled
    /\ al_back = NotCalled

AlignForward ==
    /\ al_pc = "init"
    /\ LET r == align_coordinates(al_da, al_start, al_final)
       IN  /\ al_out' = r
           /\ al_da' = r.da
           /\ al_pc' = IF r.status = "ok" THEN "forward" ELSE "failed"
    /\ UNCHANGED <<al_in, al_start, al_final, al_back>>
    /\ UNCHANGED outsideAlign

AlignBack ==
    /\ al_pc = "forward"
    /\ al_back' = align_coordinates(al_out.da_aligned, al_final, al_start)
    /\ al_pc' = "back"
    /\ UNCHANGED <<al_da, al_in, al_start, al_final, al_out>>
    /\ UNCHANGED outsideAlign

NextAlign == AlignForward \/ AlignBack

SpecAlign == InitAlign /\ [][NextAlign]_vars

InitDownscale == AlignIdle /\ MainIdle /\ FillIdle /\ InitPipe

NextDownscale == Align \/ Aggregate \/ Allocate \/ Resample \/ Combine

SpecDownscale == InitDownscale /\ [][NextDownscale]_vars

Init == AlignIdle /\ PipeIdle /\ FillIdle /\ InitMain

Next == ParseArgs \/ ReadFine \/ ReadCoarse \/ SelectVars \/ MapDownscale \/ WriteOutput

Spec == Init /\ [][Next]_vars

InitFillRun == AlignIdle /\ PipeIdle /\ MainIdle /\ InitFill

NextFill == FillOnce \/ FillAgain

SpecFill == InitFillRun /\ [][NextFill]_vars

-----------------------------------------------------------------------------
(* Properties of align_coordinates, checked under SpecAlign.                 *)

\* parameters other than the false origins that are not pairwise equal,
\* a parameter carried by one projection only included
Mismatched(p, q) ==
    {key \in (DOMAIN p \cup DOMAIN q) \ {"x_0", "y_0"} :
        \/ key \notin DOMAIN p
        \/ key \notin DOMAIN q
        \/ p[key] # q[key]}

Compatible(p, q) == Mismatched(p, q) = {}

\* C8: align_coordinates fails with the projection-mismatch error exactly when
\* some parameter other than x_0 and y_0 is not pairwise equal (a parameter
\* present in one projection only included), the error then names every
\* mismatched parameter with both values, and no aligned grid is produced.
C8_MismatchRejectedIff ==
    al_pc \in {"forward", "failed"} =>
        /\ (al_out.status = "ValueError") <=> ~Compatible(al_start, al_final)
        /\ al_out.status = "ValueError" =>
               /\ DOMAIN al_out.bad_vals = Mismatched(al_start, al_final)
               /\ \A key \in DOMAIN al_out.bad_vals :
                      al_out.bad_vals[key] = <<al_start[key], al_final[key]>>
        /\ ~Compatible(al_start, al_final) => al_out.da_aligned = NoGrid

C10_RoundTripRestores ==
    al_pc = "back" =>
        /\ al_back.status = "ok"
        /\ al_back.da_aligned.x = al_in.x
        /\ al_back.da_aligned.y = al_in.y

-----------------------------------------------------------------------------
(* Properties of the pipeline, checked under SpecDownscale.                  *)

\* the fine cells that lie in coarse cell <<J, I>>
catchment(J, I) ==
    {c \in Cells(da_fine) :
        /\ (c[1] - 1) \div grid_factor + 1 = J
        /\ (c[2] - 1) \div grid_factor + 1 = I}

CoarseCells == (1..(NY(da_fine) \div grid_factor)) \X (1..(NX(da_fine) \div grid_factor))

RECURSIVE SumOver(_, _)
SumOver(data, S) ==
    IF S = {} THEN Zero
    ELSE LET c == CHOOSE c \in S : TRUE
         IN  add(data[c], SumOver(data, S \ {c}))

\* the sum of all cells of a grid, row by row
RECURSIVE RowSum(_, _, _)
RowSum(data, j, n) == IF n = 0 THEN Zero ELSE add(data[<<j, n>>], RowSum(data, j, n - 1))

RECURSIVE RowsSum(_, _, _)
RowsSum(data, m, n) == IF m = 0 THEN Zero ELSE add(RowSum(data, m, n), RowsSum(data, m - 1, n))

Total(da) == RowsSum(da.data, NY(da), NX(da))

\* the aligned target sits on the coordinates of the coarsened reference
CellCentred ==
    /\ da_coarse_aligned.x = da_fine_coarsened.x
    /\ da_coarse_aligned.y = da_fine_coarsened.y

NonNegative(da) == \A c \in Cells(da) : IsNum(da.data[c]) /\ da.data[c].n >= 0

Coarsened == ds_pc \in {"coarsened", "allocated", "resampled", "done"}

Allocated == ds_pc \in {"allocated", "resampled", "done"}

\* C1: with agg = sum, in every coarse cell whose aggregated reference is
\* nonzero the output summed over the cell's k x k fine cells equals the
\* target value of the cell (stated here for a target on cell-centre
\* coordinates and a non-negative reference).
C1_MassConservedPerCoarseCell ==
    (ds_pc = "done" /\ agg = "sum" /\ CellCentred /\ NonNegative(da_fine)) =>
        \A C \in CoarseCells :
            da_fine_coarsened.data[C] # Zero =>
                SumOver(da_dscale.data, catchment(C[1], C[2])) = da_coarse_aligned.data[C]

\* C2: every cell of the output is defined (never NaN), for a non-negative
\* fully defined reference and a fully defined target.
C2_OutputDefinedEverywhere ==
    (ds_pc = "done" /\ NonNegative(da_fine)) =>
        \A c \in Cells(da_dscale) : da_dscale.data[c].t # "nan"

\* C3: every fractional contribution lies in [0,1], and over every coarse
\* cell with nonzero aggregate the contributions sum to 1 (stated here for
\* agg = sum and a non-negative grid).
C3_FractionBounds ==
    (Allocated /\ agg = "sum" /\ NonNegative(da_fine)) =>
        /\ \A c \in Cells(ref_contrib) :
               /\ IsNum(ref_contrib.data[c])
               /\ 0 <= ref_contrib.data[c].n
               /\ ref_contrib.data[c].n <= ref_contrib.data[c].d
        /\ \A C \in CoarseCells :
               da_fine_coarsened.data[C] # Zero =>
                   SumOver(ref_contrib.data, catchment(C[1], C[2])) = Num(1, 1)

\* C4: where a coarse cell's aggregate is exactly 0, the fractional
\* contribution of every fine cell of its catchment is exactly 0.
C4_ZeroMassGivesZeroFraction ==
    Allocated =>
        \A C \in CoarseCells :
            da_fine_coarsened.data[C] = Zero =>
                \A c \in catchment(C[1], C[2]) : ref_contrib.data[c] = Zero

\* the example: 9 x 9 ones against diag(9, 9, 9), factor 3, sum, the same
\* projection, the target on cell-centre coordinates
IsExample ==
    /\ grid_factor = 3
    /\ agg = "sum"
    /\ proj_coarse = proj_fine
    /\ NX(da_fine) = 9
    /\ NY(da_fine) = 9
    /\ \A c \in Cells(da_fine) : da_fine.data[c] = Num(1, 1)
    /\ da_coarse.x = cell_centres(da_fine.x, 3)
    /\ da_coarse.y = cell_centres(da_fine.y, 3)
    /\ da_coarse.data = [C \in (1..3) \X (1..3) |-> IF C[1] = C[2] THEN Num(9, 1) ELSE Zero]

\* C5: the example yields 1 in every fine cell of a coarse cell carrying 9
\* and 0 in every fine cell of a coarse cell carrying 0.
C5_EndToEndExample ==
    (ds_pc = "done" /\ IsExample) =>
        \A c \in Cells(da_fine) :
            da_dscale.data[c] =
                IF (c[1] - 1) \div 3 = (c[2] - 1) \div 3 THEN Num(1, 1) ELSE Zero

\* C5 witness: the example has run to its end.
C5_Witness == ds_pc = "done" /\ IsExample

\* C6: with agg = sum the coarsened grid has one cell per k x k block, each
\* coarse cell is the sum of the fine cells of its block, and the sum of all
\* coarse cells equals the sum of all fine cells.
C6_AggregationConserves ==
    (Coarsened /\ agg = "sum") =>
        /\ NX(da_fine_coarsened) * grid_factor = NX(da_fine)
        /\ NY(da_fine_coarsened) * grid_factor = NY(da_fine)
        /\ Cells(da_fine_coarsened) = CoarseCells
        /\ \A C \in CoarseCells :
               da_fine_coarsened.data[C] = SumOver(da_fine.data, catchment(C[1], C[2]))
        /\ Total(da_fine_coarsened) = Total(da_fine)

\* C6 witness: a grid of unequal values has been coarsened by 3 with sum.
C6_Witness ==
    /\ ds_pc = "coarsened"
    /\ agg = "sum"
    /\ grid_factor = 3
    /\ \E c1, c2 \in Cells(da_fine) : da_fine.data[c1] # da_fine.data[c2]
    /\ \E C1, C2 \in CoarseCells : da_fine_coarsened.data[C1] # da_fine_coarsened.data[C2]

\* both grids carry the coordinates get_cmaq_xy gives them: the fine axes
\* 0, d, 2d, ..., the coarse axes 0, kd, 2kd, ... over the same domain
FileCoordinates ==
    /\ da_fine.x = get_cmaq_xy(CellSize, NX(da_fine))
    /\ da_fine.y = get_cmaq_xy(CellSize, NY(da_fine))
    /\ da_coarse.x = get_cmaq_xy(grid_factor * CellSize, NX(da_fine) \div grid_factor)
    /\ da_coarse.y = get_cmaq_xy(grid_factor * CellSize, NY(da_fine) \div grid_factor)

Resampled == ds_pc \in {"resampled", "done"}

\* the coarse cell whose k x k block holds fine cell c
enclosing(c) == <<(c[1] - 1) \div grid_factor + 1, (c[2] - 1) \div grid_factor + 1>>

\* C15: with the coordinates of get_cmaq_xy on both grids, an odd factor of
\* at least 3 and equal false origins, the resampled target (nearest
\* neighbour, then perimeter fill) holds in every fine cell the value of the
\* coarse target cell that encloses it, the cell whose block the aggregation
\* of the reference puts it in.
C15_ResampledFromEnclosingCell ==
    (/\ Resampled
     /\ FileCoordinates
     /\ grid_factor >= 3
     /\ proj_coarse["x_0"] = proj_fine["x_0"]
     /\ proj_coarse["y_0"] = proj_fine["y_0"])
    => \A c \in Cells(da_fine) : da_coarse_nn.data[c] = da_coarse.data[enclosing(c)]

-----------------------------------------------------------------------------
(* Properties of _fill_perimeter, checked under SpecFill.                    *)

\* the index an edge index takes its values from: the first index from the
\* second, the last from the one before it (which, on an axis of two, has
\* itself been overwritten from the second)
edge_source(i, n) ==
    IF i = 1 THEN 2
    ELSE IF i = n THEN (IF n = 2 THEN 2 ELSE n - 1)
    ELSE i

\* one call copied the neighbouring column into each x edge and then the
\* neighbouring row into each y edge
FilledFrom(before, after) ==
    /\ after.x = before.x
    /\ after.y = before.y
    /\ \A c \in Cells(before) :
          after.data[c] =
              before.data[<<edge_source(c[1], NY(before)), edge_source(c[2], NX(before))>>]

\* C11: on every grid of at least two rows and two columns, with any cells
\* undefined, one call of _fill_perimeter copies column x[1] into x[0] and
\* x[-2] into x[-1], then row y[1] into y[0] and y[-2] into y[-1], and a
\* second call returns exactly the grid the first one returned.
C11_FillPerimeterIdempotent ==
    /\ fl_pc \in {"once", "twice"} => FilledFrom(fl_in, fl_once)
    /\ fl_pc = "twice" => fl_da = fl_once

\* the second call has run on a grid that the first call changed and that
\* still holds undefined cells next to defined ones
C11_Witness ==
    /\ fl_pc = "twice"
    /\ fl_once # fl_in
    /\ \E c \in Cells(fl_once) : fl_once.data[c] = NaN
    /\ \E c \in Cells(fl_once) : fl_once.data[c] # NaN
    /\ \E c \in Cells(fl_in) : fl_in.data[c] = NaN /\ fl_once.data[c] # NaN

-----------------------------------------------------------------------------
(* Properties of the command line run, checked under Spec.                   *)

PositiveOdd(n) == n > 0 /\ n % 2 = 1

\* C7: a grid factor that is not a positive odd integer is rejected before
\* any input dataset is read and before any variable is processed: no run
\* with such a factor reaches the reading or the downscaling steps.
C7_OnlyPositiveOddFactorsProceed ==
    ~PositiveOdd(args.gridfactor) =>
        /\ pc \notin {"fine_read", "coarse_read", "downscaling", "done"}
        /\ grid_fine = NoDataset
        /\ grid_coarse = NoDataset
        /\ done_vars = 0

\* the names of the working list
WorkingSet == {data_vars[n] : n \in DOMAIN data_vars}

\* every name of the working list is a variable of both datasets, with both
\* spatial axes in both
Downscalable ==
    \A v \in WorkingSet :
        /\ v \in DOMAIN grid_fine /\ {"x", "y"} \subseteq grid_fine[v]
        /\ v \in DOMAIN grid_coarse /\ {"x", "y"} \subseteq grid_coarse[v]

\* C12: for a non-empty working list of variables present in both datasets,
\* with valid grids and a valid factor, downscale_vars processes every
\* variable and returns a mapping whose keys are exactly the working list and
\* whose value for each name is the downscaling of that variable with the
\* given factor: the run does not fail, and once it has ended the mapping is
\* complete.
C12_MappingKeyedByWorkingSet ==
    (/\ pc \in {"failed", "done"}
     /\ data_vars # <<>>
     /\ Downscalable
     /\ PositiveOdd(args.gridfactor))
    => /\ pc = "done"
       /\ DOMAIN downscaled_output = WorkingSet
       /\ \A v \in WorkingSet :
             downscaled_output[v] = <<"downscaled", v, args.gridfactor>>

\* position in the working list of the first variable whose downscaling
\* fails, 0 when none does
FirstFailure ==
    LET failing == {n \in DOMAIN data_vars :
                       map_downscale(data_vars[n], grid_fine, grid_coarse,
                                     args.gridfactor).status # "ok"}
    IN  IF failing = {} THEN 0
        ELSE CHOOSE n \in failing : \A n2 \in failing : n <= n2

\* the run has left downscale_vars, with a mapping or with an exception
LeftDownscaleVars ==
    \/ pc = "done"
    \/ pc = "failed" /\ grid_coarse # NoDataset

FailedInDownscaleVars ==
    /\ pc = "failed"
    /\ error = map_downscale(data_vars[FirstFailure], grid_fine, grid_coarse,
                             args.gridfactor).status
    /\ done_vars = FirstFailure - 1
    /\ downscaled_output = <<>>
    /\ file_out = <<"absent">>

\* C13: when the downscaling of some variable fails, the run ends in failure
\* with the error of the first failing variable of the working list, no
\* later variable is processed, no mapping is returned and the output file
\* is not written, then or later; the output file is written only when every
\* variable of the working list has succeeded.
C13_NoPartialSuccess ==
    /\ [](LeftDownscaleVars /\ FirstFailure # 0 => FailedInDownscaleVars)
    /\ [](pc = "failed" => [](pc = "failed" /\ file_out = <<"absent">>))
    /\ [](file_out # <<"absent">> =>
             /\ pc = "done"
             /\ FirstFailure = 0
             /\ done_vars = Len(data_vars)
             /\ DOMAIN downscaled_output = WorkingSet)

\* the first variable of a longer working list has failed, with an error
\* that differs from the one the next variable would raise
C13_Witness ==
    /\ pc = "failed"
    /\ FirstFailure = 1
    /\ Len(data_vars) > 1
    /\ error # map_downscale(data_vars[2], grid_fine, grid_coarse,
                             args.gridfactor).status
    /\ file_out = <<"absent">>

\* the working list has been determined
VarsSelected == pc = "downscaling" \/ LeftDownscaleVars

\* the data variables of both datasets that carry x and y in both
SpatialInBoth ==
    {v \in DOMAIN grid_coarse \cap DOMAIN grid_fine :
        {"x", "y"} \subseteq grid_coarse[v] /\ {"x", "y"} \subseteq grid_fine[v]}

\* C14: without an explicit variable list the working list holds exactly the
\* names that are data variables of both datasets and carry both spatial
\* axes x and y in both; with an explicit list the working list is that
\* list, unfiltered.
C14_WorkingSetSelection ==
    VarsSelected =>
        IF args.datavars = NoneList
        THEN WorkingSet = SpatialInBoth
        ELSE data_vars = args.datavars

====
